---- MODULE Spec2Model ----
(***************************************************************************)
(* Model of the request-validation and error-taxonomy layer of axum-auth:  *)
(*   src/src/dtos.rs    input contracts, their validation rules, and the   *)
(*                      projection User -> FilterUserDTO                   *)
(*   src/src/models.rs  UserRole, User                                     *)
(*   src/src/error.rs   ErrorMessage, HttpError, ErrorResponse             *)
(*   src/src/config.rs  Config::init                                       *)
(*                                                                         *)
(* Text is modelled as a sequence of one-character strings, so that        *)
(* lengths, equality and syntax checks are computed on the characters.     *)
(* Fixed messages of the source are kept as string literals.               *)
(***************************************************************************)
EXTENDS Integers, Sequences, FiniteSets, TLC

VARIABLES
    pc,         \* position of the component under check
    dtoKind,    \* which input contract the request body is for
    body,       \* the request body as received
    outcome,    \* "deserialize_error" | "validation_error" | "valid"
    errors,     \* the ValidationErrors produced, in evaluation order
    errKind,    \* the ErrorMessage value, or a free-text message
    ctor,       \* which HttpError constructor is used
    message,    \* the message handed to the constructor
    httpError,  \* the HttpError built
    response,   \* the axum Response built from it
    env,        \* the process environment
    config,     \* the Config value Config::init returned
    panic,      \* the panic message Config::init aborted with
    users,      \* User records handed to the projection
    filtered    \* the FilterUserDTO values produced

vars == <<pc, dtoKind, body, outcome, errors, errKind, ctor, message,
          httpError, response, env, config, panic, users, filtered>>

validateVars == <<dtoKind, body, outcome, errors>>
errorVars    == <<errKind, ctor, message, httpError, response>>
configVars   == <<env, config, panic>>
projectVars  == <<users, filtered>>

\* A field that does not apply, or a value not yet computed.
None == "None"

\* Option<T>: None is the empty sequence, Some(v) the sequence of v alone.
NoneOpt == <<>>
Some(v) == <<v>>

Range(s) == {s[i] : i \in DOMAIN s}

-----------------------------------------------------------------------------
(* Bounds of the inputs *)

MaxNameLen  == 4
MaxPwLen    == 6
MaxEmailLen == 6
MaxTokenLen == 1
MaxPage     == 2
MaxLimit    == 51
MaxPasswordLimit == 100
MaxUsers    == 2

\* The first k characters of text repeated cyclically.
CyclePrefix(text, k) == [i \in 1..k |-> text[((i - 1) % Len(text)) + 1]]

\* s with its last character replaced by c.
WithLast(s, c) == [i \in 1..Len(s) |-> IF i = Len(s) THEN c ELSE s[i]]

\* "", "A", "Al", "Ali", "AliA", ...
Names == {CyclePrefix(<<"A", "l", "i">>, k) : k \in 0..MaxNameLen}

\* "", "a", "ab", ..., "abcdef", ... and each with a different last character
Passwords ==
    {CyclePrefix(<<"a", "b", "c", "d", "e", "f">>, k) : k \in 0..MaxPwLen}
    \cup {WithLast(CyclePrefix(<<"a", "b", "c", "d", "e", "f">>, k), "x") :
             k \in 1..MaxPwLen}

Tokens == {CyclePrefix(<<"t">>, k) : k \in 0..MaxTokenLen}

EmailAlphabet == {"a", "@", "."}

Specials(s) == Cardinality({i \in DOMAIN s : s[i] # "a"})

\* Every text over EmailAlphabet of at most MaxEmailLen characters with at
\* most n characters other than "a", and the two addresses the
\* specification names: "a@b.co" and "ab@c".
EmailsWith(n) ==
    {s \in UNION {[1..k -> EmailAlphabet] : k \in 0..MaxEmailLen} :
        Specials(s) <= n}
    \cup {<<"a", "@", "b", ".", "c", "o">>, <<"a", "b", "@", "c">>}

Emails == EmailsWith(2)

\* The role tags a client may send.
RoleTags == {"User", "Admin", "user", "admin", "Moderator", ""}

-----------------------------------------------------------------------------
(* models.rs: UserRole *)

UserRole == {"UserRole::User", "UserRole::Admin"}

\* #[derive(Deserialize)] on the enum: the variant is named by its
\* identifier, case-sensitively; anything else is a deserialization error.
DeserializeUserRole(tag) ==
    CASE tag = "User"  -> [ok |-> TRUE, value |-> "UserRole::User"]
      [] tag = "Admin" -> [ok |-> TRUE, value |-> "UserRole::Admin"]
      [] OTHER         -> [ok |-> FALSE, value |-> None]

\* UserRole::to_str
RoleToStr(role) ==
    CASE role = "UserRole::User"  -> "user"
      [] role = "UserRole::Admin" -> "admin"

-----------------------------------------------------------------------------
(* dtos.rs: the validation rules declared on the input contracts *)

LengthRule(f, n, msg) ==
    [field |-> f, check |-> "length", min |-> n, max |-> None,
     other |-> None, code |-> "length", message |-> msg]

EmailRule(f, msg) ==
    [field |-> f, check |-> "email", min |-> None, max |-> None,
     other |-> None, code |-> "email", message |-> msg]

MustMatchRule(f, o, msg) ==
    [field |-> f, check |-> "must_match", min |-> None, max |-> None,
     other |-> o, code |-> "must_match", message |-> msg]

RangeRule(f, lo, hi, msg) ==
    [field |-> f, check |-> "range", min |-> lo, max |-> hi,
     other |-> None, code |-> "range", message |-> msg]

CustomRule(f, fn) ==
    [field |-> f, check |-> fn, min |-> None, max |-> None,
     other |-> None, code |-> None, message |-> None]

LoginRules ==
    << LengthRule("email", 6, "Email must be at least 6 characters long"),
       EmailRule("email", "Email must be a valid email address"),
       LengthRule("password", 1, "Password must be at least 1 character long"),
       LengthRule("password", 6, "Password must be at least 6 characters long") >>

\* RegisterUserDTO with the confirmation never compared to the password.
RegisterRulesNoMustMatch ==
    << LengthRule("name", 3, "Name must be at least 3 characters long"),
       LengthRule("email", 6, "Email must be at least 6 characters long"),
       EmailRule("email", "Email must be a valid email address"),
       LengthRule("password", 1, "Password must be at least 1 character long"),
       LengthRule("password", 6, "Password must be at least 6 characters long"),
       LengthRule("password_confirm", 1, "Password confirmation is required") >>

\* RegisterUserDTO with the name threshold of NewUpdateDTO.
RegisterRulesNameMin1 ==
    << LengthRule("name", 1, "Name must be at least 3 characters long"),
       LengthRule("email", 6, "Email must be at least 6 characters long"),
       EmailRule("email", "Email must be a valid email address"),
       LengthRule("password", 1, "Password must be at least 1 character long"),
       LengthRule("password", 6, "Password must be at least 6 characters long"),
       LengthRule("password_confirm", 1, "Password confirmation is required"),
       MustMatchRule("password_confirm", "password", "Passwords do not match") >>

RegisterRules ==
    << LengthRule("name", 3, "Name must be at least 3 characters long"),
       LengthRule("email", 6, "Email must be at least 6 characters long"),
       EmailRule("email", "Email must be a valid email address"),
       LengthRule("password", 1, "Password must be at least 1 character long"),
       LengthRule("password", 6, "Password must be at least 6 characters long"),
       LengthRule("password_confirm", 1, "Password confirmation is required"),
       MustMatchRule("password_confirm", "password", "Passwords do not match") >>

RequestQueryRules ==
    << RangeRule("page", 1, NoneOpt, "Page must be at least 1"),
       RangeRule("limit", 1, Some(50), None) >>

NewUpdateRules ==
    << LengthRule("name", 1, "Name is required") >>

RoleUpdateRules ==
    << CustomRule("role", "validate_user_role") >>

UpdatePasswordRules ==
    << LengthRule("old_password", 1, "Current password is required"),
       LengthRule("new_password", 1, "New password is required"),
       LengthRule("new_password", 6, "New password must be at least 6 characters long"),
       LengthRule("new_password_confirm", 1, "Password confirmation is required"),
       MustMatchRule("new_password_confirm", "new_password", "Passwords do not match") >>

VerifyEmailRules ==
    << LengthRule("token", 1, "Token is required") >>

ForgotPasswordRules ==
    << LengthRule("email", 6, "Email must be at least 6 characters long"),
       EmailRule("email", "Email must be a valid email address") >>

ResetPasswordRules ==
    << LengthRule("token", 1, "Token is required"),
       LengthRule("new_password", 1, "New password is required"),
       LengthRule("new_password", 6, "New password must be at least 6 characters long"),
       LengthRule("new_password_confirm", 1, "Password confirmation is required"),
       MustMatchRule("new_password_confirm", "new_password", "Passwords do not match") >>

-----------------------------------------------------------------------------
(* The checks the rules name (validator crate, as used by derive(Validate)) *)

AlphaNum == {"a", "b", "c", "o"}

\* The local part: one or more characters, letters, digits and the
\* punctuation an address may carry ("." among them), never "@".
ValidUserPart(u) ==
    /\ Len(u) >= 1
    /\ \A i \in DOMAIN u : u[i] \in AlphaNum \cup {"."}

\* The domain: labels separated by ".", each label non-empty and starting
\* and ending with a letter or digit.  A single label is enough.
ValidDomainPart(d) ==
    /\ Len(d) >= 1
    /\ \A i \in DOMAIN d : d[i] \in AlphaNum \cup {"."}
    /\ d[1] # "."
    /\ d[Len(d)] # "."
    /\ \A i \in 1..(Len(d) - 1) : ~(d[i] = "." /\ d[i + 1] = ".")

\* email(...): non-empty, contains "@", split at the last "@".
ValidateEmail(s) ==
    IF Len(s) = 0 \/ "@" \notin Range(s)
    THEN FALSE
    ELSE LET at == CHOOSE i \in DOMAIN s :
                      s[i] = "@" /\ \A j \in DOMAIN s : s[j] = "@" => j <= i
         IN  /\ ValidUserPart(SubSeq(s, 1, at - 1))
             /\ ValidDomainPart(SubSeq(s, at + 1, Len(s)))

\* length(min = n): the number of characters is at least n.
ValidateLength(s, n) == Len(s) >= n

\* must_match(other = ...): the two values are equal.
ValidateMustMatch(a, b) == a = b

\* range(min = lo, max = hi) on an Option: None is not checked.
ValidateRange(v, lo, hi) ==
    \/ v = NoneOpt
    \/ /\ v[1] >= lo
       /\ hi # NoneOpt => v[1] <= hi[1]

\* validate_user_role: Ok for Admin and User, Err("Invalid user role")
\* for anything else.
ValidateUserRole(role) ==
    IF role \in {"UserRole::Admin", "UserRole::User"}
    THEN None
    ELSE "Invalid user role"

ValidationError(f, c, msg) == [field |-> f, code |-> c, message |-> msg]

\* One declared rule applied to a value of the contract: no error when
\* the rule holds, its ValidationError when it does not.
RuleCheck(rule, dto) ==
    CASE rule.check = "length" ->
            IF ValidateLength(dto[rule.field], rule.min) THEN <<>>
            ELSE <<ValidationError(rule.field, rule.code, rule.message)>>
      [] rule.check = "email" ->
            IF ValidateEmail(dto[rule.field]) THEN <<>>
            ELSE <<ValidationError(rule.field, rule.code, rule.message)>>
      [] rule.check = "must_match" ->
            IF ValidateMustMatch(dto[rule.field], dto[rule.other]) THEN <<>>
            ELSE <<ValidationError(rule.field, rule.code, rule.message)>>
      [] rule.check = "range" ->
            IF ValidateRange(dto[rule.field], rule.min, rule.max) THEN <<>>
            ELSE <<ValidationError(rule.field, rule.code, rule.message)>>
      [] rule.check = "validate_user_role" ->
            IF ValidateUserRole(dto[rule.field]) = None THEN <<>>
            ELSE <<ValidationError(rule.field,
                                   ValidateUserRole(dto[rule.field]), None)>>

RECURSIVE RunRules(_, _, _)
RunRules(rules, dto, errs) ==
    IF rules = <<>> THEN errs
    ELSE RunRules(Tail(rules), dto, errs \o RuleCheck(Head(rules), dto))

\* Validation that stops at the first rule that fails.
RECURSIVE RunRulesFirstOnly(_, _)
RunRulesFirstOnly(rules, dto) ==
    IF rules = <<>> THEN <<>>
    ELSE IF RuleCheck(Head(rules), dto) # <<>>
         THEN RuleCheck(Head(rules), dto)
         ELSE RunRulesFirstOnly(Tail(rules), dto)

ValidateShortCircuit(rules, dto) == RunRulesFirstOnly(rules, dto)

\* Validate::validate as derived: every declared rule is applied, in
\* declaration order, and every failure is added to the errors.
Validate(rules, dto) == RunRules(rules, dto, <<>>)

\* Result<(), ValidationErrors>
Outcome(errs) == IF errs = <<>> THEN "valid" ELSE "validation_error"

-----------------------------------------------------------------------------
(* Request validation: one request body per behaviour, handled once *)

DtoKinds ==
    {"LoginUserDTO", "RegisterUserDTO", "RequestQueryDTO", "NewUpdateDTO",
     "RoleUpdateDto", "UpdatePasswordUpdateDto", "VerifyEmailQueryDto",
     "ForgotPasswordRequestDTO", "ResetPasswordRequestDTO"}

OptNat(max) == {NoneOpt} \cup {Some(n) : n \in 0..max}

\* The request bodies of each contract.  The role of a RoleUpdateDto is
\* the tag as sent; every other field already has its declared type.
Bodies(kind) ==
    CASE kind = "LoginUserDTO" ->
            [email : Emails, password : Passwords]
      [] kind = "RegisterUserDTO" ->
            [name : Names, email : Emails, password : Passwords,
             password_confirm : Passwords]
      [] kind = "RequestQueryDTO" ->
            [page : OptNat(MaxPage), limit : OptNat(MaxLimit)]
      [] kind = "NewUpdateDTO" ->
            [name : Names]
      [] kind = "RoleUpdateDto" ->
            [role : RoleTags]
      [] kind = "UpdatePasswordUpdateDto" ->
            [old_password : Passwords, new_password : Passwords,
             new_password_confirm : Passwords]
      [] kind = "VerifyEmailQueryDto" ->
            [token : Tokens]
      [] kind = "ForgotPasswordRequestDTO" ->
            [email : Emails]
      [] kind = "ResetPasswordRequestDTO" ->
            [token : Tokens, new_password : Passwords,
             new_password_confirm : Passwords]

IdleError   == errKind = None /\ ctor = None /\ message = None
                /\ httpError = NoneOpt /\ response = NoneOpt
IdleConfig  == env = None /\ config = NoneOpt /\ panic = NoneOpt
IdleProject == users = <<>> /\ filtered = NoneOpt
IdleValidate == dtoKind = None /\ body = None /\ outcome = None
                /\ errors = <<>>

InitValidate ==
    /\ pc = "received"
    /\ dtoKind \in DtoKinds
    /\ body \in Bodies(dtoKind)
    /\ outcome = None
    /\ errors = <<>>
    /\ IdleError /\ IdleConfig /\ IdleProject

\* The handler's step once the body is validated: the errors are kept and
\* the request goes on only when there are none.
Validated(errs) ==
    /\ errors' = errs
    /\ outcome' = Outcome(errs)
    /\ pc' = "done"
    /\ UNCHANGED <<dtoKind, body, errorVars, configVars, projectVars>>

ValidateLogin ==
    /\ pc = "received"
    /\ dtoKind = "LoginUserDTO"
    /\ Validated(Validate(LoginRules, body))

ValidateRegister ==
    /\ pc = "received"
    /\ dtoKind = "RegisterUserDTO"
    /\ Validated(Validate(RegisterRules, body))

ValidateRequestQuery ==
    /\ pc = "received"
    /\ dtoKind = "RequestQueryDTO"
    /\ Validated(Validate(RequestQueryRules, body))

ValidateNewUpdate ==
    /\ pc = "received"
    /\ dtoKind = "NewUpdateDTO"
    /\ Validated(Validate(NewUpdateRules, body))

ValidateUpdatePassword ==
    /\ pc = "received"
    /\ dtoKind = "UpdatePasswordUpdateDto"
    /\ Validated(Validate(UpdatePasswordRules, body))

ValidateVerifyEmail ==
    /\ pc = "received"
    /\ dtoKind = "VerifyEmailQueryDto"
    /\ Validated(Validate(VerifyEmailRules, body))

ValidateForgotPassword ==
    /\ pc = "received"
    /\ dtoKind = "ForgotPasswordRequestDTO"
    /\ Validated(Validate(ForgotPasswordRules, body))

ValidateResetPassword ==
    /\ pc = "received"
    /\ dtoKind = "ResetPasswordRequestDTO"
    /\ Validated(Validate(ResetPasswordRules, body))

\* RoleUpdateDto: role has type UserRole, so the tag is deserialized into
\* the enum first, and validate_user_role only ever sees a UserRole.
ValidateRoleUpdate ==
    /\ pc = "received"
    /\ dtoKind = "RoleUpdateDto"
    /\ LET de == DeserializeUserRole(body.role)
       IN  IF de.ok
           THEN /\ errors' = Validate(RoleUpdateRules, [role |-> de.value])
                /\ outcome' = Outcome(errors')
           ELSE /\ errors' = <<>>
                /\ outcome' = "deserialize_error"
    /\ pc' = "done"
    /\ UNCHANGED <<dtoKind, body, errorVars, configVars, projectVars>>

NextValidate ==
    \/ ValidateLogin
    \/ ValidateRegister
    \/ ValidateRequestQuery
    \/ ValidateNewUpdate
    \/ ValidateRoleUpdate
    \/ ValidateUpdatePassword
    \/ ValidateVerifyEmail
    \/ ValidateForgotPassword
    \/ ValidateResetPassword

SpecValidate == InitValidate /\ [][NextValidate]_vars

-----------------------------------------------------------------------------
(* error.rs: ErrorMessage *)

UnitKinds ==
    {"EmptyPassword", "InvalidHashFormat", "HashingError", "InvalidToken",
     "ServerError", "WrongCredentials", "EmailExist", "UserNoLongerExist",
     "TokenNotProvided", "PermissionDenied", "UserNotAuthenticated"}

\* The values of the enum: eleven unit variants and
\* ExceededMaxPasswordLength(usize).
ErrorMessage ==
    [tag : UnitKinds, limit : {NoneOpt}]
    \cup [tag : {"ExceededMaxPasswordLength"},
          limit : {Some(n) : n \in 0..MaxPasswordLimit}]

\* A failure reported with ad hoc text instead of a taxonomy kind.
AdHoc == [tag |-> "ad hoc", limit |-> NoneOpt]

AdHocTexts == {"", "Invalid input"}

DecimalDigit(d) == <<"0", "1", "2", "3", "4", "5", "6", "7", "8", "9">>[d + 1]

\* Display of a usize, as "{}" formats it: decimal, most significant
\* digit first, no padding.
RECURSIVE FmtUsize(_)
FmtUsize(n) ==
    IF n < 10 THEN DecimalDigit(n)
    ELSE FmtUsize(n \div 10) \o DecimalDigit(n % 10)

\* to_str with the limit left out of the text.
ErrorMessageToStrNoLimit(e) ==
    IF e.tag = "ExceededMaxPasswordLength"
    THEN "Password exceeds maximum length of {} characters"
    ELSE "Password cannot be empty"

\* ErrorMessage::to_str
ErrorMessageToStr(e) ==
    CASE e.tag = "EmptyPassword" -> "Password cannot be empty"
      [] e.tag = "ExceededMaxPasswordLength" ->
            "Password exceeds maximum length of " \o FmtUsize(e.limit[1])
                \o " characters"
      [] e.tag = "InvalidHashFormat"    -> "Invalid hash format"
      [] e.tag = "HashingError"         -> "Error hashing password"
      [] e.tag = "InvalidToken"         -> "Invalid token"
      [] e.tag = "ServerError"          -> "Internal server error"
      [] e.tag = "WrongCredentials"     -> "Wrong email or password"
      [] e.tag = "EmailExist"           -> "Email already exists"
      [] e.tag = "UserNoLongerExist"    -> "User no longer exists"
      [] e.tag = "TokenNotProvided"     -> "Token not provided"
      [] e.tag = "PermissionDenied"     -> "Permission denied"
      [] e.tag = "UserNotAuthenticated" -> "User not authenticated"

\* impl ToString for ErrorMessage
ErrorMessageToString(e) == ErrorMessageToStr(e)

-----------------------------------------------------------------------------
(* error.rs: HttpError *)

\* The status codes a caller of HttpError::new may pass.
StatusCodes == {400, 401, 403, 404, 409, 500}

HttpErrorNew(status, msg) == [status |-> status, message |-> msg]

\* server_error answering 400.
HttpErrorServerErrorAsBadRequest(msg) == [status |-> 400, message |-> msg]

HttpErrorServerError(msg) == [status |-> 500, message |-> msg]

HttpErrorBadRequest(msg) == [status |-> 400, message |-> msg]

\* unique_constraint_violation answering 400.
HttpErrorUniqueAsBadRequest(msg) == [status |-> 400, message |-> msg]

HttpErrorUniqueConstraintViolation(msg) == [status |-> 409, message |-> msg]

HttpErrorUnauthorized(msg) == [status |-> 401, message |-> msg]

\* into_http_response answering 500 whatever the envelope's status.
IntoHttpResponseAlways500(e) ==
    [status |-> 500,
     body |-> [status |-> "error", message |-> e.message]]

\* into_http_response: (self.status, Json(ErrorResponse {status: "error",
\* message: self.message}))
IntoHttpResponse(e) ==
    [status |-> e.status,
     body |-> [status |-> "error", message |-> e.message]]

Constructors ==
    [name : {"server_error", "bad_request", "unique_constraint_violation",
             "unauthorized"}, status : {NoneOpt}]
    \cup [name : {"new"}, status : {Some(c) : c \in StatusCodes}]

InitError ==
    /\ pc = "raised"
    /\ errKind \in ErrorMessage \cup {AdHoc}
    /\ ctor \in Constructors
    /\ message = None
    /\ httpError = NoneOpt
    /\ response = NoneOpt
    /\ IdleValidate /\ IdleConfig /\ IdleProject

\* A taxonomy kind is rendered to its text.
Render ==
    /\ pc = "raised"
    /\ errKind # AdHoc
    /\ message' = ErrorMessageToString(errKind)
    /\ pc' = "rendered"
    /\ UNCHANGED <<errKind, ctor, httpError, response,
                   validateVars, configVars, projectVars>>

\* The caller supplies free text.
AdHocMessage ==
    /\ pc = "raised"
    /\ errKind = AdHoc
    /\ message' \in AdHocTexts
    /\ pc' = "rendered"
    /\ UNCHANGED <<errKind, ctor, httpError, response,
                   validateVars, configVars, projectVars>>

Built(e) ==
    /\ httpError' = Some(e)
    /\ pc' = "built"
    /\ UNCHANGED <<errKind, ctor, message, response,
                   validateVars, configVars, projectVars>>

New ==
    /\ pc = "rendered"
    /\ ctor.name = "new"
    /\ Built(HttpErrorNew(ctor.status[1], message))

ServerError ==
    /\ pc = "rendered"
    /\ ctor.name = "server_error"
    /\ Built(HttpErrorServerError(message))

BadRequest ==
    /\ pc = "rendered"
    /\ ctor.name = "bad_request"
    /\ Built(HttpErrorBadRequest(message))

UniqueConstraintViolation ==
    /\ pc = "rendered"
    /\ ctor.name = "unique_constraint_violation"
    /\ Built(HttpErrorUniqueConstraintViolation(message))

Unauthorized ==
    /\ pc = "rendered"
    /\ ctor.name = "unauthorized"
    /\ Built(HttpErrorUnauthorized(message))

IntoResponse ==
    /\ pc = "built"
    /\ response' = Some(IntoHttpResponse(httpError[1]))
    /\ pc' = "responded"
    /\ UNCHANGED <<errKind, ctor, message, httpError,
                   validateVars, configVars, projectVars>>

NextError ==
    \/ Render
    \/ AdHocMessage
    \/ New
    \/ ServerError
    \/ BadRequest
    \/ UniqueConstraintViolation
    \/ Unauthorized
    \/ IntoResponse

SpecError == InitError /\ [][NextError]_vars

-----------------------------------------------------------------------------
(* config.rs: Config::init *)

\* str::parse for the integer types: an optional sign ("-" only for a
\* signed type), then one or more decimal digits, nothing else; the value
\* must fit the type.  Magnitudes are kept as digit sequences so that the
\* 64-bit limits are compared exactly.

IsDigit(c) == c \in {"0", "1", "2", "3", "4", "5", "6", "7", "8", "9"}

DigitValue(c) == CHOOSE d \in 0..9 : DecimalDigit(d) = c

RECURSIVE StripZeros(_)
StripZeros(ds) ==
    IF ds # <<>> /\ Head(ds) = "0" THEN StripZeros(Tail(ds)) ELSE ds

\* a <= b for magnitudes without leading zeros
RECURSIVE MagnitudeLeq(_, _)
MagnitudeLeq(a, b) ==
    IF Len(a) # Len(b) THEN Len(a) < Len(b)
    ELSE IF a = <<>> THEN TRUE
    ELSE IF Head(a) # Head(b) THEN DigitValue(Head(a)) < DigitValue(Head(b))
    ELSE MagnitudeLeq(Tail(a), Tail(b))

I64Max ==
    <<"9", "2", "2", "3", "3", "7", "2", "0", "3", "6", "8", "5", "4", "7",
      "7", "5", "8", "0", "7">>

I64MinMagnitude ==
    <<"9", "2", "2", "3", "3", "7", "2", "0", "3", "6", "8", "5", "4", "7",
      "7", "5", "8", "0", "8">>

U16Max == <<"6", "5", "5", "3", "5">>

ParseError(k) == [ok |-> FALSE, kind |-> k]

ParseInt(s, signed, max, minMagnitude) ==
    IF s = <<>> THEN ParseError("Empty")
    ELSE IF s \in {<<"+">>, <<"-">>} THEN ParseError("InvalidDigit")
    ELSE LET negative == signed /\ Head(s) = "-"
             digits   == IF Head(s) = "+" \/ negative THEN Tail(s) ELSE s
             mag      == StripZeros(digits)
         IN  IF \E i \in DOMAIN digits : ~IsDigit(digits[i])
             THEN ParseError("InvalidDigit")
             ELSE IF negative /\ ~MagnitudeLeq(mag, minMagnitude)
             THEN ParseError("NegOverflow")
             ELSE IF ~negative /\ ~MagnitudeLeq(mag, max)
             THEN ParseError("PosOverflow")
             ELSE [ok |-> TRUE, negative |-> negative /\ mag # <<>>,
                   magnitude |-> mag]

\* .parse::<i64>()
ParseI64(s) == ParseInt(s, TRUE, I64Max, I64MinMagnitude)

\* .parse::<u16>()
ParseU16(s) == ParseInt(s, FALSE, U16Max, <<>>)

\* An environment variable is unset (NoneOpt), set to text (Some(text)), or
\* set to bytes that are no valid Unicode.
NotUnicode == <<"NotUnicode", "bytes">>

\* std::env::var(..).is_ok()
VarOk(v) == Len(v) = 1

OpaqueTexts == {NoneOpt, NotUnicode, Some(""), Some("postgres://db")}

MaxAgeTexts ==
    {NoneOpt, NotUnicode,
     Some(<<>>),
     Some(<<"6", "0">>),
     Some(<<"+", "6", "0">>),
     Some(<<"-", "6", "0">>),
     Some(<<"0", "0", "7">>),
     Some(<<"-">>),
     Some(<<"6", "0", "m">>),
     Some(<<" ", "6", "0">>),
     Some(I64Max),
     Some(I64MinMagnitude),
     Some(<<"-">> \o I64MinMagnitude),
     Some(<<"-">> \o I64Max \o <<"0">>)}

PortTexts ==
    {NoneOpt, NotUnicode,
     Some(<<>>),
     Some(<<"0">>),
     Some(<<"8", "0", "0", "0">>),
     Some(<<"0", "8", "0", "0", "0">>),
     Some(<<"+", "8", "0">>),
     Some(<<"-", "1">>),
     Some(<<"8", "0", " ">>),
     Some(<<"h", "t", "t", "p">>),
     Some(<<"6", "5", "5", "3", "5">>),
     Some(<<"6", "5", "5", "3", "6">>),
     Some(<<"1", "0", "0", "0", "0", "0">>)}

Environments ==
    [DATABASE_URL : OpaqueTexts, JWT_SECRET : OpaqueTexts,
     JWT_MAXAGE : MaxAgeTexts, PORT : PortTexts]

Aborted(msg) == [config |-> NoneOpt, panic |-> Some(msg)]

\* Config::init with PORT falling back to 8000 when it is not set.
ConfigInitDefaultPort(e) ==
    IF ~VarOk(e.DATABASE_URL) THEN Aborted("DATABASE_URL must be set")
    ELSE IF ~VarOk(e.JWT_SECRET) THEN Aborted("JWT_SECRET must be set")
    ELSE IF ~VarOk(e.JWT_MAXAGE) THEN Aborted("JWT_MAXAGE must be set")
    ELSE IF ~ParseI64(e.JWT_MAXAGE[1]).ok
    THEN Aborted("JWT_MAXAGE must be a number")
    ELSE LET port == IF VarOk(e.PORT) THEN e.PORT[1]
                     ELSE <<"8", "0", "0", "0">>
         IN  IF ~ParseU16(port).ok THEN Aborted("PORT must be a number")
             ELSE [config |-> Some([database_url |-> e.DATABASE_URL[1],
                                    jwt_secret |-> e.JWT_SECRET[1],
                                    jwt_maxage |-> ParseI64(e.JWT_MAXAGE[1]),
                                    port |-> ParseU16(port)]),
                   panic |-> NoneOpt]

\* Config::init: the four variables are read in order; each expect panics
\* with its message, and the first failure ends the function.
ConfigInit(e) ==
    IF ~VarOk(e.DATABASE_URL) THEN Aborted("DATABASE_URL must be set")
    ELSE IF ~VarOk(e.JWT_SECRET) THEN Aborted("JWT_SECRET must be set")
    ELSE IF ~VarOk(e.JWT_MAXAGE) THEN Aborted("JWT_MAXAGE must be set")
    ELSE IF ~ParseI64(e.JWT_MAXAGE[1]).ok
    THEN Aborted("JWT_MAXAGE must be a number")
    ELSE IF ~VarOk(e.PORT) THEN Aborted("PORT must be set")
    ELSE IF ~ParseU16(e.PORT[1]).ok THEN Aborted("PORT must be a number")
    ELSE [config |-> Some([database_url |-> e.DATABASE_URL[1],
                           jwt_secret |-> e.JWT_SECRET[1],
                           jwt_maxage |-> ParseI64(e.JWT_MAXAGE[1]),
                           port |-> ParseU16(e.PORT[1])]),
          panic |-> NoneOpt]

InitConfig ==
    /\ pc = "starting"
    /\ env \in Environments
    /\ config = NoneOpt
    /\ panic = NoneOpt
    /\ IdleValidate /\ IdleError /\ IdleProject

\* Startup calls Config::init once: the process has its Config, or it has
\* panicked.
Startup ==
    /\ pc = "starting"
    /\ config' = ConfigInit(env).config
    /\ panic' = ConfigInit(env).panic
    /\ pc' = IF ConfigInit(env).panic = NoneOpt THEN "configured" ELSE "aborted"
    /\ UNCHANGED <<env, validateVars, errorVars, projectVars>>

NextConfig == Startup

SpecConfig == InitConfig /\ [][NextConfig]_vars

-----------------------------------------------------------------------------
(* models.rs: User; dtos.rs: FilterUserDTO *)

\* uuid::Uuid: sixteen bytes.
Uuids ==
    {[i \in 1..16 |-> 0],
     [i \in 1..16 |-> (i * 37 + 150) % 256]}

\* (verification_code, token_expires_at), both Option
PendingTokens ==
    {<<NoneOpt, NoneOpt>>, <<Some("code-1"), NoneOpt>>,
     <<Some("code-1"), Some(30)>>}

\* The User records handed to the projection.
Users ==
    {[id |-> i, name |-> "Ali", email |-> "a@b.co", password |-> p,
      role |-> r, verified |-> v, verification_code |-> t[1],
      token_expires_at |-> t[2], created_at |-> 10, updated_at |-> 20] :
        i \in Uuids, p \in {"secret-hash", "other-hash"}, r \in UserRole,
        v \in BOOLEAN, t \in PendingTokens}

HexDigit(n) ==
    <<"0", "1", "2", "3", "4", "5", "6", "7", "8", "9",
      "a", "b", "c", "d", "e", "f">>[n + 1]

HexByte(b) == HexDigit(b \div 16) \o HexDigit(b % 16)

\* Uuid::to_string: lowercase hexadecimal in groups of 8-4-4-4-12 digits.
RECURSIVE UuidHex(_, _)
UuidHex(id, i) ==
    IF i > Len(id) THEN ""
    ELSE (IF i \in {5, 7, 9, 11} THEN "-" ELSE "")
            \o HexByte(id[i]) \o UuidHex(id, i + 1)

UuidToString(id) == UuidHex(id, 1)

\* A projection that serializes the password along with the public fields.
FilterUserWithPassword(user) ==
    [id |-> UuidToString(user.id),
     name |-> user.name,
     email |-> user.email,
     password |-> user.password,
     role |-> RoleToStr(user.role),
     verified |-> user.verified,
     created_at |-> user.created_at,
     updated_at |-> user.updated_at]

\* FilterUserDTO::filter_user
FilterUser(user) ==
    [id |-> UuidToString(user.id),
     name |-> user.name,
     email |-> user.email,
     role |-> RoleToStr(user.role),
     verified |-> user.verified,
     created_at |-> user.created_at,
     updated_at |-> user.updated_at]

\* FilterUserDTO::filter_users
FilterUsers(us) == [i \in 1..Len(us) |-> FilterUser(us[i])]

InitProject ==
    /\ pc = "loaded"
    /\ users \in UNION {[1..n -> Users] : n \in 0..MaxUsers}
    /\ filtered = NoneOpt
    /\ IdleValidate /\ IdleError /\ IdleConfig

\* filter_user on a single record
ProjectOne ==
    /\ pc = "loaded"
    /\ Len(users) = 1
    /\ filtered' = Some([call |-> "filter_user", value |-> FilterUser(users[1])])
    /\ pc' = "filtered"
    /\ UNCHANGED <<users, validateVars, errorVars, configVars>>

\* filter_users on the slice
ProjectAll ==
    /\ pc = "loaded"
    /\ filtered' = Some([call |-> "filter_users", value |-> FilterUsers(users)])
    /\ pc' = "filtered"
    /\ UNCHANGED <<users, validateVars, errorVars, configVars>>

NextProject ==
    \/ ProjectOne
    \/ ProjectAll

SpecProject == InitProject /\ [][NextProject]_vars

-----------------------------------------------------------------------------
(* Properties of request validation *)

Done(kind) == pc = "done" /\ dtoKind = kind

\* The messages reported for field f.
MessagesOn(f) == {errors[i].message : i \in {j \in DOMAIN errors : errors[j].field = f}}

\* The fields that carry a violation.
FieldsInError == {errors[i].field : i \in DOMAIN errors}

\* C1: a RegisterUserDTO whose password differs from password_confirm is
\* rejected with the violation "Passwords do not match" on
\* password_confirm, whatever the password's own length and whatever the
\* name and the email are.
C1_MismatchReported ==
    (Done("RegisterUserDTO") /\ body.password # body.password_confirm)
        => /\ outcome = "validation_error"
           /\ \E i \in DOMAIN errors :
                 /\ errors[i].field = "password_confirm"
                 /\ errors[i].code = "must_match"
                 /\ errors[i].message = "Passwords do not match"

\* C1 witness: two different passwords that both pass their own rules,
\* name and email valid: the mismatch is the only violation.
C1_Witness ==
    /\ Done("RegisterUserDTO")
    /\ body.password # body.password_confirm
    /\ Len(body.password) >= 6
    /\ Len(body.password_confirm) >= 6
    /\ errors = <<ValidationError("password_confirm", "must_match",
                                  "Passwords do not match")>>

\* C3 as stated: a role tag outside {User, Admin}, in either spelling of
\* the two members, ends as a validation failure carrying the violation of
\* the role rule, not as a deserialization failure.
C3_InvalidRoleIsValidationFailure ==
    (Done("RoleUpdateDto")
        /\ body.role \notin {"User", "Admin", "user", "admin"})
        => /\ outcome = "validation_error"
           /\ \E i \in DOMAIN errors :
                 /\ errors[i].field = "role"
                 /\ errors[i].code = "Invalid user role"

\* The declared rules of each contract, and the value they are applied to.
RulesOf(kind) ==
    CASE kind = "LoginUserDTO"             -> LoginRules
      [] kind = "RegisterUserDTO"          -> RegisterRules
      [] kind = "RequestQueryDTO"          -> RequestQueryRules
      [] kind = "NewUpdateDTO"             -> NewUpdateRules
      [] kind = "RoleUpdateDto"            -> RoleUpdateRules
      [] kind = "UpdatePasswordUpdateDto"  -> UpdatePasswordRules
      [] kind = "VerifyEmailQueryDto"      -> VerifyEmailRules
      [] kind = "ForgotPasswordRequestDTO" -> ForgotPasswordRules
      [] kind = "ResetPasswordRequestDTO"  -> ResetPasswordRules

TypedBody ==
    IF dtoKind = "RoleUpdateDto"
    THEN [role |-> DeserializeUserRole(body.role).value]
    ELSE body

FailingRules == {i \in DOMAIN RulesOf(dtoKind) :
                    RuleCheck(RulesOf(dtoKind)[i], TypedBody) # <<>>}

\* C4: validation does not stop at the first failure.  Once a body that
\* deserialized is validated, the violations are exactly the declared rules
\* that fail on it, one violation per failing rule; a short email that is
\* no address carries both email messages, and an empty password both
\* password messages.
C4_AllRulesChecked ==
    (pc = "done" /\ outcome \in {"valid", "validation_error"})
        => /\ Len(errors) = Cardinality(FailingRules)
           /\ \A i \in FailingRules :
                 \E j \in DOMAIN errors :
                    <<errors[j]>> = RuleCheck(RulesOf(dtoKind)[i], TypedBody)
           /\ (/\ dtoKind \in {"LoginUserDTO", "RegisterUserDTO",
                              "ForgotPasswordRequestDTO"}
               /\ Len(body.email) < 6
               /\ ~ValidateEmail(body.email))
                 => {"Email must be at least 6 characters long",
                     "Email must be a valid email address"}
                        \subseteq MessagesOn("email")
           /\ (/\ dtoKind \in {"LoginUserDTO", "RegisterUserDTO"}
               /\ body.password = <<>>)
                 => {"Password must be at least 1 character long",
                     "Password must be at least 6 characters long"}
                        \subseteq MessagesOn("password")

\* C4 witness: a login with the 4-character non-address "aaaa" and an empty
\* password: all four rules are reported.
C4_Witness ==
    /\ Done("LoginUserDTO")
    /\ body.email = <<"a", "a", "a", "a">>
    /\ body.password = <<>>
    /\ Len(errors) = 4
    /\ MessagesOn("email") = {"Email must be at least 6 characters long",
                              "Email must be a valid email address"}
    /\ MessagesOn("password") = {"Password must be at least 1 character long",
                                 "Password must be at least 6 characters long"}

OtherRegisterFieldsValid ==
    /\ Len(body.email) >= 6
    /\ ValidateEmail(body.email)
    /\ Len(body.password) >= 6
    /\ body.password_confirm = body.password

\* C9: with the other fields valid, a RegisterUserDTO whose name has fewer
\* than 3 characters is violated on name only and one whose name has 3 or
\* more is not violated at all; a NewUpdateDTO is violated exactly when its
\* name has fewer than 1 character.
C9_NameThresholds ==
    /\ (Done("RegisterUserDTO") /\ OtherRegisterFieldsValid)
         => IF Len(body.name) < 3
            THEN /\ outcome = "validation_error"
                 /\ FieldsInError = {"name"}
                 /\ MessagesOn("name") = {"Name must be at least 3 characters long"}
            ELSE /\ outcome = "valid"
                 /\ errors = <<>>
    /\ Done("NewUpdateDTO")
         => /\ (outcome = "validation_error") = (Len(body.name) < 1)
            /\ (outcome = "valid") = (Len(body.name) >= 1)

\* C9 witness: {name: "Al", email: "a@b.co", password: "abcdef",
\* password_confirm: "abcdef"} is rejected with the one violation on name.
C9_Witness ==
    /\ Done("RegisterUserDTO")
    /\ body = [name |-> <<"A", "l">>,
               email |-> <<"a", "@", "b", ".", "c", "o">>,
               password |-> <<"a", "b", "c", "d", "e", "f">>,
               password_confirm |-> <<"a", "b", "c", "d", "e", "f">>]
    /\ errors = <<ValidationError("name", "length",
                                  "Name must be at least 3 characters long")>>

-----------------------------------------------------------------------------
(* Properties of the error taxonomy and the HTTP error envelope *)

Responded(tag, ctorName) ==
    /\ pc = "responded"
    /\ errKind.tag = tag
    /\ ctor.name = ctorName

\* C6: EmailExist, rendered and passed to unique_constraint_violation,
\* answers 409 Conflict with the message "Email already exists".
C6_EmailExistIs409 ==
    Responded("EmailExist", "unique_constraint_violation")
        => /\ response[1].status = 409
           /\ response[1].body.message = "Email already exists"

C6_Witness ==
    /\ Responded("EmailExist", "unique_constraint_violation")
    /\ response = Some([status |-> 409,
                        body |-> [status |-> "error",
                                  message |-> "Email already exists"]])

\* C7: whatever constructor built the HttpError, the response carries the
\* envelope's status, and its body has status "error" and the message the
\* constructor was given, unchanged.
C7_EnvelopeShape ==
    /\ pc \in {"built", "responded"} => httpError[1].message = message
    /\ pc = "responded"
         => /\ response[1].status = httpError[1].status
            /\ response[1].body.status = "error"
            /\ response[1].body.message = httpError[1].message
            /\ DOMAIN response[1].body = {"status", "message"}

\* C7 witness: an envelope built by HttpError::new with 403 and free text.
C7_Witness ==
    /\ pc = "responded"
    /\ ctor = [name |-> "new", status |-> Some(403)]
    /\ message = "Invalid input"
    /\ response = Some([status |-> 403,
                        body |-> [status |-> "error",
                                  message |-> "Invalid input"]])

\* C8: every kind renders to a text; ExceededMaxPasswordLength(n) renders
\* "Password exceeds maximum length of n characters" with n in decimal,
\* and for n = 72 exactly "Password exceeds maximum length of 72 characters".
C8_RenderingExact ==
    (pc # "raised" /\ errKind # AdHoc)
        => /\ message \in STRING
           /\ Len(message) > 0
           /\ errKind.tag = "ExceededMaxPasswordLength"
                => message = "Password exceeds maximum length of "
                                \o ToString(errKind.limit[1]) \o " characters"
           /\ errKind = [tag |-> "ExceededMaxPasswordLength", limit |-> Some(72)]
                => message = "Password exceeds maximum length of 72 characters"

C8_Witness ==
    /\ pc = "rendered"
    /\ errKind = [tag |-> "ExceededMaxPasswordLength", limit |-> Some(72)]
    /\ message = "Password exceeds maximum length of 72 characters"

InternalKinds == {"ServerError", "HashingError", "InvalidHashFormat"}

ViaServerError ==
    /\ pc = "responded"
    /\ errKind.tag \in InternalKinds
    /\ ctor.name = "server_error"

\* C10 as stated: ServerError, HashingError and InvalidHashFormat reach the
\* client through server_error as status 500 with the generic internal
\* server error text.
C10_InternalKindsGeneric ==
    ViaServerError
        => /\ response[1].status = 500
           /\ response[1].body.message = "Internal server error"

\* C10 amended: through server_error the three kinds answer 500, each with
\* its own canonical text; only ServerError's is the generic one.
C10_InternalKindsOwnText ==
    ViaServerError
        => /\ response[1].status = 500
           /\ response[1].body.status = "error"
           /\ response[1].body.message =
                 CASE errKind.tag = "ServerError"       -> "Internal server error"
                   [] errKind.tag = "HashingError"      -> "Error hashing password"
                   [] errKind.tag = "InvalidHashFormat" -> "Invalid hash format"

C10_Witness ==
    /\ ViaServerError
    /\ errKind.tag = "HashingError"
    /\ response = Some([status |-> 500,
                        body |-> [status |-> "error",
                                  message |-> "Error hashing password"]])

-----------------------------------------------------------------------------
(* Properties of configuration loading *)

AllSetAndParse ==
    /\ VarOk(env.DATABASE_URL)
    /\ VarOk(env.JWT_SECRET)
    /\ VarOk(env.JWT_MAXAGE) /\ ParseI64(env.JWT_MAXAGE[1]).ok
    /\ VarOk(env.PORT) /\ ParseU16(env.PORT[1]).ok

AnyAbsentOrUnparsable ==
    \/ \E v \in {"DATABASE_URL", "JWT_SECRET", "JWT_MAXAGE", "PORT"} :
          env[v] = NoneOpt
    \/ VarOk(env.JWT_MAXAGE) /\ ~ParseI64(env.JWT_MAXAGE[1]).ok
    \/ VarOk(env.PORT) /\ ~ParseU16(env.PORT[1]).ok

\* C5: configuration loading is fail-fast.  A Config exists only if the
\* four variables are set, JWT_MAXAGE parses as i64 and PORT as u16, and
\* then it holds their values; if any variable is absent or does not parse,
\* startup has aborted with a panic and there is no Config.  65536 is no
\* port and 9223372036854775808 no max-age.
C5_ConfigFailFast ==
    /\ pc = "starting" => config = NoneOpt
    /\ config # NoneOpt
         => /\ pc = "configured"
            /\ AllSetAndParse
            /\ panic = NoneOpt
            /\ config[1].database_url = env.DATABASE_URL[1]
            /\ config[1].jwt_secret = env.JWT_SECRET[1]
    /\ (pc # "starting" /\ AnyAbsentOrUnparsable)
         => /\ pc = "aborted"
            /\ config = NoneOpt
            /\ panic # NoneOpt
    /\ (pc # "starting" /\ AllSetAndParse) => config # NoneOpt
    /\ (pc # "starting"
          /\ (\/ env.PORT = Some(<<"6", "5", "5", "3", "6">>)
              \/ env.PORT = Some(<<"-", "1">>)
              \/ env.JWT_MAXAGE = Some(I64MinMagnitude)))
         => config = NoneOpt

\* C5 witness: everything is set and parses except PORT, which is absent:
\* startup aborted on PORT and produced no Config.
C5_Witness ==
    /\ pc = "aborted"
    /\ env.DATABASE_URL = Some("postgres://db")
    /\ env.JWT_SECRET = Some("postgres://db")
    /\ env.JWT_MAXAGE = Some(<<"6", "0">>)
    /\ env.PORT = NoneOpt
    /\ config = NoneOpt
    /\ panic = Some("PORT must be set")

-----------------------------------------------------------------------------
(* Properties of the projection *)

PublicFields ==
    {"id", "name", "email", "role", "verified", "created_at", "updated_at"}

SamePublic(u, v) == \A f \in PublicFields : u[f] = v[f]

DiffersInPrivate(u, v) ==
    /\ u.password # v.password
    /\ u.verification_code # v.verification_code
    /\ u.token_expires_at # v.token_expires_at

\* The FilterUserDTO has the seven public fields only, and none of its
\* text fields is the record's password or verification code.
Omits(dto, user) ==
    /\ DOMAIN dto = PublicFields
    /\ \A f \in {"id", "name", "email", "role"} :
          /\ dto[f] # user.password
          /\ Some(dto[f]) # user.verification_code

\* C2: the projection never exposes password or verification_code.  Two
\* records that agree on the seven public fields are projected to the same
\* FilterUserDTO whatever their password, verification_code and
\* token_expires_at are, and the FilterUserDTO carries neither value.
C2_ProjectionHidesSecrets ==
    pc = "filtered"
        => LET out == filtered[1]
           IN  IF out.call = "filter_user"
               THEN Omits(out.value, users[1])
               ELSE /\ Len(out.value) = Len(users)
                    /\ \A i \in DOMAIN users : Omits(out.value[i], users[i])
                    /\ \A i, j \in DOMAIN users :
                          SamePublic(users[i], users[j])
                              => out.value[i] = out.value[j]

\* C2 witness: two records with the same public fields and different
\* password, verification_code and token_expires_at, the first with every
\* optional field populated, projected to the same FilterUserDTO.
C2_Witness ==
    /\ pc = "filtered"
    /\ filtered[1].call = "filter_users"
    /\ Len(users) = 2
    /\ SamePublic(users[1], users[2])
    /\ DiffersInPrivate(users[1], users[2])
    /\ users[1].password = "secret-hash"
    /\ users[1].verification_code # NoneOpt
    /\ users[1].token_expires_at # NoneOpt
    /\ filtered[1].value[1] = filtered[1].value[2]
    /\ filtered[1].value[1].role = "user"
    /\ filtered[1].value[1].id = "00000000-0000-0000-0000-000000000000"

====
